---- MODULE Spec2Model ----
(***************************************************************************)
(* Model of the toy payments engine.                                       *)
(*                                                                         *)
(*  - src/src/client.rs : the account state machine (Client) with its five *)
(*    handlers, checked under Spec.  Amounts are rust_decimal Decimals,    *)
(*    modelled as signed integers counting 1/10000 units.                  *)
(*  - src/src/main.rs + src/src/types.rs : the dispatcher loop over a      *)
(*    ClientList whose balances are DecimalType(u32), checked under        *)
(*    MainSpec.                                                            *)
(***************************************************************************)
EXTENDS Integers, FiniteSets, Sequences, TLC

\* ------------------------------------------------------------------ bounds
\* number of distinct transaction ids offered to an account
MaxTx == 2
\* largest amount offered in a Deposit / Withdrawal
MaxAmount == 1

TxIds == 1..MaxTx
\* Decimal is signed: the input may carry a negative or a zero amount
Amounts == (0 - 1)..MaxAmount
\* Option<Decimal>: None is the empty sequence, Some(a) the sequence <<a>>
None == <<>>

Some(a) == <<a>>

unwrap(o) == o[1]

\* ------------------------------------------------------------ data types
TransactionType == {"Deposit", "Withdrawal", "Dispute", "Resolve", "Chargeback"}

BalanceChangeEntryType == {"Deposit", "Withdrawal"}

BalanceChangeEntryStatus == {"Valid", "ActiveDispute", "ChargedBack"}

TransactionProcessingError ==
    {"ReusedTransactionId", "AmountNotSpecified", "NoSufficientFunds",
     "UnknownTransactionId", "DoubleDispute", "DisputeNotActive",
     "DisputeOnWithdrawal"}

BalanceChangeEntry(ty, amount, status) ==
    [ty |-> ty, amount |-> amount, status |-> status]

\* Client::default(): empty map, zero balances, not frozen
ClientDefault ==
    [balance_changes |-> <<>>, available |-> 0, held |-> 0, is_frozen |-> FALSE]

Transaction(ty, client, tx, amount) ==
    [ty |-> ty, client |-> client, tx |-> tx, amount |-> amount]

\* the transactions offered to one account (client id 0, as in the tests)
Transactions ==
    {Transaction(ty, 0, tx, a) :
        ty \in {"Deposit", "Withdrawal"}, tx \in TxIds,
        a \in {Some(x) : x \in Amounts} \cup {None}}
    \cup
    {Transaction(ty, 0, tx, None) :
        ty \in {"Dispute", "Resolve", "Chargeback"}, tx \in TxIds}

\* value of `transaction` before anything was processed
NoTransaction == Transaction("None", 0, 0, None)

\* ------------------------------------------------------------- variables
VARIABLES
    client,       \* client.rs Client under test
    result,       \* `result` of the last process_transaction ("Ok" or an error)
    transaction,  \* the last transaction handed to process_transaction
    before,       \* the Client as it was when that call started
    clients,          \* main.rs `clients`: ClientList, client id -> types.rs Client
    main_transaction, \* the transaction the loop body of main handled last
    clients_before,   \* `clients` as it was when that iteration started
    processed,        \* number of transactions the loop of main has consumed
    balance_change,   \* the local `balance_change` of that arm when the arm was left
    overflow_checks,  \* build profile: TRUE = u32 overflow panics, FALSE = it wraps
    panicked,         \* main was aborted by an arithmetic panic
    transaction_list, \* main.rs `transaction_list`: the whole input stream
    cursor,           \* number of transactions the chunks of main have taken from it
    pending,          \* positions of the current chunk, sorted, not yet handled
    applied           \* positions of the stream in the order main handled them

account_vars == <<client, result, transaction, before>>

ledger_vars ==
    <<clients, main_transaction, clients_before, processed, balance_change,
      overflow_checks, panicked>>

stream_vars == <<transaction_list, cursor, pending, applied>>

vars == <<account_vars, ledger_vars, stream_vars>>

\* HashMap::insert on a key that is absent or present
Insert(map, k, v) == [x \in (DOMAIN map) \cup {k} |-> IF x = k THEN v ELSE map[x]]

\* ---------------------------------------------------------- client.rs
\* mutant of total: the held funds are left out
total_without_held(c) == c.available

total(c) == c.available + c.held

\* mutant of validate_transaction_uniqueness: an id counts as used only
\* while its entry is not charged back
validate_transaction_uniqueness_live_only(c, t) ==
    IF t.tx \in DOMAIN c.balance_changes
       /\ c.balance_changes[t.tx].status # "ChargedBack"
    THEN "ReusedTransactionId" ELSE "Ok"

validate_transaction_uniqueness(c, t) ==
    IF t.tx \in DOMAIN c.balance_changes THEN "ReusedTransactionId" ELSE "Ok"

get_transaction_amount(t) ==
    IF t.amount = None THEN "AmountNotSpecified" ELSE "Ok"

\* mutant of get_balance_change_entry: a missing entry is reported as a
\* dispute that is not active
get_balance_change_entry_wrong_kind(c, tx) ==
    IF tx \in DOMAIN c.balance_changes THEN "Ok" ELSE "DisputeNotActive"

get_balance_change_entry(c, tx) ==
    IF tx \in DOMAIN c.balance_changes THEN "Ok" ELSE "UnknownTransactionId"

Failed(err, c) == [result |-> err, client |-> c]

\* mutant of process_deposit: a frozen account takes no deposit
process_deposit_refused_when_frozen(c, t) ==
    IF c.is_frozen
    THEN Failed("NoSufficientFunds", c)
    ELSE IF validate_transaction_uniqueness(c, t) # "Ok"
    THEN Failed(validate_transaction_uniqueness(c, t), c)
    ELSE IF get_transaction_amount(t) # "Ok"
    THEN Failed(get_transaction_amount(t), c)
    ELSE [result |-> "Ok",
          client |-> [c EXCEPT
              !.balance_changes =
                  Insert(@, t.tx, BalanceChangeEntry("Deposit", unwrap(t.amount), "Valid")),
              !.available = @ + unwrap(t.amount)]]

\* mutant of process_deposit: the amount is looked at before the tx id
process_deposit_amount_first(c, t) ==
    IF get_transaction_amount(t) # "Ok"
    THEN Failed(get_transaction_amount(t), c)
    ELSE IF validate_transaction_uniqueness(c, t) # "Ok"
    THEN Failed(validate_transaction_uniqueness(c, t), c)
    ELSE [result |-> "Ok",
          client |-> [c EXCEPT
              !.balance_changes =
                  Insert(@, t.tx, BalanceChangeEntry("Deposit", unwrap(t.amount), "Valid")),
              !.available = @ + unwrap(t.amount)]]

process_deposit(c, t) ==
    IF validate_transaction_uniqueness(c, t) # "Ok"
    THEN Failed(validate_transaction_uniqueness(c, t), c)
    ELSE IF get_transaction_amount(t) # "Ok"
    THEN Failed(get_transaction_amount(t), c)
    ELSE [result |-> "Ok",
          client |-> [c EXCEPT
              !.balance_changes =
                  Insert(@, t.tx, BalanceChangeEntry("Deposit", unwrap(t.amount), "Valid")),
              !.available = @ + unwrap(t.amount)]]

\* mutant of process_withdrawal: the entry is inserted before the funds check
process_withdrawal_insert_first(c, t) ==
    IF validate_transaction_uniqueness(c, t) # "Ok"
    THEN Failed(validate_transaction_uniqueness(c, t), c)
    ELSE IF get_transaction_amount(t) # "Ok"
    THEN Failed(get_transaction_amount(t), c)
    ELSE LET inserted == [c EXCEPT !.balance_changes =
                 Insert(@, t.tx, BalanceChangeEntry("Withdrawal", unwrap(t.amount), "Valid"))]
         IN  IF c.available < unwrap(t.amount)
             THEN Failed("NoSufficientFunds", inserted)
             ELSE [result |-> "Ok",
                   client |-> [inserted EXCEPT !.available = @ - unwrap(t.amount)]]

\* mutant of process_withdrawal: the funds check is <= instead of <
process_withdrawal_strict(c, t) ==
    IF validate_transaction_uniqueness(c, t) # "Ok"
    THEN Failed(validate_transaction_uniqueness(c, t), c)
    ELSE IF get_transaction_amount(t) # "Ok"
    THEN Failed(get_transaction_amount(t), c)
    ELSE IF c.available <= unwrap(t.amount)
    THEN Failed("NoSufficientFunds", c)
    ELSE [result |-> "Ok",
          client |-> [c EXCEPT
              !.balance_changes =
                  Insert(@, t.tx, BalanceChangeEntry("Withdrawal", unwrap(t.amount), "Valid")),
              !.available = @ - unwrap(t.amount)]]

process_withdrawal(c, t) ==
    IF validate_transaction_uniqueness(c, t) # "Ok"
    THEN Failed(validate_transaction_uniqueness(c, t), c)
    ELSE IF get_transaction_amount(t) # "Ok"
    THEN Failed(get_transaction_amount(t), c)
    ELSE IF c.available < unwrap(t.amount)
    THEN Failed("NoSufficientFunds", c)
    ELSE [result |-> "Ok",
          client |-> [c EXCEPT
              !.balance_changes =
                  Insert(@, t.tx, BalanceChangeEntry("Withdrawal", unwrap(t.amount), "Valid")),
              !.available = @ - unwrap(t.amount)]]

\* mutant of process_dispute: the amount is added to held but stays available
process_dispute_keeps_available(c, t) ==
    IF get_balance_change_entry(c, t.tx) # "Ok"
    THEN Failed(get_balance_change_entry(c, t.tx), c)
    ELSE IF c.balance_changes[t.tx].status # "Valid"
    THEN Failed("DoubleDispute", c)
    ELSE [result |-> "Ok",
          client |-> [c EXCEPT
              !.balance_changes[t.tx].status = "ActiveDispute",
              !.held = @ + c.balance_changes[t.tx].amount]]

\* mutant of process_dispute: only an entry in ActiveDispute is refused
process_dispute_rejects_active_only(c, t) ==
    IF get_balance_change_entry(c, t.tx) # "Ok"
    THEN Failed(get_balance_change_entry(c, t.tx), c)
    ELSE IF c.balance_changes[t.tx].status = "ActiveDispute"
    THEN Failed("DoubleDispute", c)
    ELSE [result |-> "Ok",
          client |-> [c EXCEPT
              !.balance_changes[t.tx].status = "ActiveDispute",
              !.available = @ - c.balance_changes[t.tx].amount,
              !.held = @ + c.balance_changes[t.tx].amount]]

\* mutant of process_dispute: a withdrawal cannot be disputed
process_dispute_rejects_withdrawal(c, t) ==
    IF get_balance_change_entry(c, t.tx) # "Ok"
    THEN Failed(get_balance_change_entry(c, t.tx), c)
    ELSE IF c.balance_changes[t.tx].ty = "Withdrawal"
    THEN Failed("DisputeOnWithdrawal", c)
    ELSE IF c.balance_changes[t.tx].status # "Valid"
    THEN Failed("DoubleDispute", c)
    ELSE [result |-> "Ok",
          client |-> [c EXCEPT
              !.balance_changes[t.tx].status = "ActiveDispute",
              !.available = @ - c.balance_changes[t.tx].amount,
              !.held = @ + c.balance_changes[t.tx].amount]]

process_dispute(c, t) ==
    IF get_balance_change_entry(c, t.tx) # "Ok"
    THEN Failed(get_balance_change_entry(c, t.tx), c)
    ELSE IF c.balance_changes[t.tx].status # "Valid"
    THEN Failed("DoubleDispute", c)
    ELSE [result |-> "Ok",
          client |-> [c EXCEPT
              !.balance_changes[t.tx].status = "ActiveDispute",
              !.available = @ - c.balance_changes[t.tx].amount,
              !.held = @ + c.balance_changes[t.tx].amount]]

\* mutant of process_resolve: the amount is made available but stays held
process_resolve_keeps_held(c, t) ==
    IF get_balance_change_entry(c, t.tx) # "Ok"
    THEN Failed(get_balance_change_entry(c, t.tx), c)
    ELSE IF c.balance_changes[t.tx].status # "ActiveDispute"
    THEN Failed("DisputeNotActive", c)
    ELSE [result |-> "Ok",
          client |-> [c EXCEPT
              !.balance_changes[t.tx].status = "Valid",
              !.available = @ + c.balance_changes[t.tx].amount]]

\* mutant of process_resolve: a resolved dispute lifts the freeze
process_resolve_unfreezes(c, t) ==
    IF get_balance_change_entry(c, t.tx) # "Ok"
    THEN Failed(get_balance_change_entry(c, t.tx), c)
    ELSE IF c.balance_changes[t.tx].status # "ActiveDispute"
    THEN Failed("DisputeNotActive", c)
    ELSE [result |-> "Ok",
          client |-> [c EXCEPT
              !.balance_changes[t.tx].status = "Valid",
              !.available = @ + c.balance_changes[t.tx].amount,
              !.held = @ - c.balance_changes[t.tx].amount,
              !.is_frozen = FALSE]]

process_resolve(c, t) ==
    IF get_balance_change_entry(c, t.tx) # "Ok"
    THEN Failed(get_balance_change_entry(c, t.tx), c)
    ELSE IF c.balance_changes[t.tx].status # "ActiveDispute"
    THEN Failed("DisputeNotActive", c)
    ELSE [result |-> "Ok",
          client |-> [c EXCEPT
              !.balance_changes[t.tx].status = "Valid",
              !.available = @ + c.balance_changes[t.tx].amount,
              !.held = @ - c.balance_changes[t.tx].amount]]

\* mutant of process_chargeback: the amount is taken out of available too
process_chargeback_takes_available(c, t) ==
    IF get_balance_change_entry(c, t.tx) # "Ok"
    THEN Failed(get_balance_change_entry(c, t.tx), c)
    ELSE IF c.balance_changes[t.tx].status # "ActiveDispute"
    THEN Failed("DisputeNotActive", c)
    ELSE [result |-> "Ok",
          client |-> [c EXCEPT
              !.balance_changes[t.tx].status = "ChargedBack",
              !.available = @ - c.balance_changes[t.tx].amount,
              !.held = @ - c.balance_changes[t.tx].amount,
              !.is_frozen = TRUE]]

\* mutant of process_chargeback: only a Valid entry is refused
process_chargeback_rejects_valid_only(c, t) ==
    IF get_balance_change_entry(c, t.tx) # "Ok"
    THEN Failed(get_balance_change_entry(c, t.tx), c)
    ELSE IF c.balance_changes[t.tx].status = "Valid"
    THEN Failed("DisputeNotActive", c)
    ELSE [result |-> "Ok",
          client |-> [c EXCEPT
              !.balance_changes[t.tx].status = "ChargedBack",
              !.held = @ - c.balance_changes[t.tx].amount,
              !.is_frozen = TRUE]]

\* mutant of process_chargeback: the amount stays in held
process_chargeback_keeps_held(c, t) ==
    IF get_balance_change_entry(c, t.tx) # "Ok"
    THEN Failed(get_balance_change_entry(c, t.tx), c)
    ELSE IF c.balance_changes[t.tx].status # "ActiveDispute"
    THEN Failed("DisputeNotActive", c)
    ELSE [result |-> "Ok",
          client |-> [c EXCEPT
              !.balance_changes[t.tx].status = "ChargedBack",
              !.is_frozen = TRUE]]

\* mutant of process_chargeback: the account is not frozen
process_chargeback_does_not_freeze(c, t) ==
    IF get_balance_change_entry(c, t.tx) # "Ok"
    THEN Failed(get_balance_change_entry(c, t.tx), c)
    ELSE IF c.balance_changes[t.tx].status # "ActiveDispute"
    THEN Failed("DisputeNotActive", c)
    ELSE [result |-> "Ok",
          client |-> [c EXCEPT
              !.balance_changes[t.tx].status = "ChargedBack",
              !.held = @ - c.balance_changes[t.tx].amount]]

\* mutant of process_chargeback: the charged-back entry is taken out of the map
process_chargeback_removes_entry(c, t) ==
    IF get_balance_change_entry(c, t.tx) # "Ok"
    THEN Failed(get_balance_change_entry(c, t.tx), c)
    ELSE IF c.balance_changes[t.tx].status # "ActiveDispute"
    THEN Failed("DisputeNotActive", c)
    ELSE [result |-> "Ok",
          client |-> [c EXCEPT
              !.balance_changes = [k \in (DOMAIN @) \ {t.tx} |-> @[k]],
              !.held = @ - c.balance_changes[t.tx].amount,
              !.is_frozen = TRUE]]

process_chargeback(c, t) ==
    IF get_balance_change_entry(c, t.tx) # "Ok"
    THEN Failed(get_balance_change_entry(c, t.tx), c)
    ELSE IF c.balance_changes[t.tx].status # "ActiveDispute"
    THEN Failed("DisputeNotActive", c)
    ELSE [result |-> "Ok",
          client |-> [c EXCEPT
              !.balance_changes[t.tx].status = "ChargedBack",
              !.held = @ - c.balance_changes[t.tx].amount,
              !.is_frozen = TRUE]]

\* the match of process_transaction: one handler per transaction kind
Handle(c, t) ==
    CASE t.ty = "Deposit"    -> process_deposit(c, t)
      [] t.ty = "Withdrawal" -> process_withdrawal(c, t)
      [] t.ty = "Dispute"    -> process_dispute(c, t)
      [] t.ty = "Resolve"    -> process_resolve(c, t)
      [] t.ty = "Chargeback" -> process_chargeback(c, t)

\* process_transaction: run the handler, keep its state, drop its error
process_transaction(t) ==
    /\ client' = Handle(client, t).client
    /\ result' = Handle(client, t).result
    /\ transaction' = t
    /\ before' = client
    /\ UNCHANGED <<ledger_vars, stream_vars>>

AccountInit ==
    /\ client = ClientDefault
    /\ result = "Ok"
    /\ transaction = NoTransaction
    /\ before = ClientDefault

\* main: `clients` starts as HashMap::new()
LedgerInit ==
    /\ clients = <<>>
    /\ main_transaction = NoTransaction
    /\ clients_before = <<>>
    /\ processed = 0
    /\ balance_change = None
    /\ panicked = FALSE

\* no input stream: the variables of the stream stay as they are here
StreamIdle ==
    /\ transaction_list = <<>>
    /\ cursor = 0
    /\ pending = <<>>
    /\ applied = <<>>

Init == AccountInit /\ LedgerInit /\ StreamIdle /\ overflow_checks = FALSE

Deposit == \E t \in Transactions : t.ty = "Deposit" /\ process_transaction(t)

Withdrawal == \E t \in Transactions : t.ty = "Withdrawal" /\ process_transaction(t)

Dispute == \E t \in Transactions : t.ty = "Dispute" /\ process_transaction(t)

Resolve == \E t \in Transactions : t.ty = "Resolve" /\ process_transaction(t)

Chargeback == \E t \in Transactions : t.ty = "Chargeback" /\ process_transaction(t)

Next == Deposit \/ Withdrawal \/ Dispute \/ Resolve \/ Chargeback

Spec == Init /\ [][Next]_vars

TypeOK ==
    /\ DOMAIN client.balance_changes \subseteq TxIds
    /\ \A k \in DOMAIN client.balance_changes :
          /\ client.balance_changes[k].ty \in BalanceChangeEntryType
          /\ client.balance_changes[k].amount \in Amounts
          /\ client.balance_changes[k].status \in BalanceChangeEntryStatus
    /\ client.available \in Int
    /\ client.held \in Int
    /\ client.is_frozen \in BOOLEAN
    /\ result \in TransactionProcessingError \cup {"Ok"}

\* ------------------------------------------------ types.rs and main.rs
\* number of client ids offered to the dispatcher loop
MaxClient == 2
\* number of transactions the input stream of main may hold
MaxStream == 4

ClientIds == 1..MaxClient

\* DecimalType(u32): the value times 10_000 in an unsigned 32-bit integer,
\* kept here as the pair <<high 16 bits, low 16 bits>>
Half == 65536

DecimalType(hi, lo) == <<hi, lo>>

\* #[derive(Default)] of DecimalType
DecimalZero == DecimalType(0, 0)

\* the largest u32
DecimalMax == DecimalType(Half - 1, Half - 1)

\* types.rs Client::default()
MainClientDefault ==
    [balance_changes |-> <<>>, available |-> DecimalZero, held |-> DecimalZero,
     is_frozen |-> FALSE]

\* amounts of the stream: small ones and the largest a DecimalType holds
MainAmounts == {DecimalType(0, x) : x \in 0..MaxAmount} \cup {DecimalMax}

MainTransactions ==
    {Transaction(ty, cid, tx, a) :
        ty \in {"Deposit", "Withdrawal"}, cid \in ClientIds, tx \in TxIds,
        a \in {Some(x) : x \in MainAmounts} \cup {None}}
    \cup
    {Transaction(ty, cid, tx, None) :
        ty \in {"Dispute", "Resolve", "Chargeback"}, cid \in ClientIds, tx \in TxIds}

\* impl Add / AddAssign for DecimalType: self.0 + other.0 on u32, wrapped
DecimalAdd(a, b) ==
    DecimalType((a[1] + b[1] + ((a[2] + b[2]) \div Half)) % Half, (a[2] + b[2]) % Half)

\* self.0 + other.0 exceeds u32::MAX
AddOverflows(a, b) == a[1] + b[1] + ((a[2] + b[2]) \div Half) >= Half

\* #[derive(PartialOrd, Ord)] of DecimalType: a < b
DecimalLess(a, b) == a[1] < b[1] \/ (a[1] = b[1] /\ a[2] < b[2])

\* impl Sub / SubAssign for DecimalType: self.0 - other.0 on u32, wrapped
DecimalSub(a, b) ==
    DecimalType((a[1] - b[1] - (IF a[2] < b[2] THEN 1 ELSE 0)) % Half,
                (a[2] - b[2]) % Half)

\* self.0 - other.0 is below zero
SubOverflows(a, b) == DecimalLess(a, b)

\* types.rs Client::total
main_total(c) == DecimalAdd(c.available, c.held)

\* Option::unwrap_or_default on Option<DecimalType>
unwrap_or_default(o) == IF o = None THEN DecimalZero ELSE unwrap(o)

\* outcome of one iteration of the loop body on the client it works on
Done(c) == [client |-> c, panic |-> FALSE]

Panic(c) == [client |-> c, panic |-> TRUE]

\* Deposit arm.  balance_change is the Option that get_mut returned;
\* balance_change.replace(..) overwrites that local Option, not the map.
main_deposit(c, t, chk) ==
    IF t.tx \in DOMAIN c.balance_changes
    THEN Done(c)
    ELSE IF chk /\ AddOverflows(c.available, unwrap_or_default(t.amount))
    THEN Panic(c)
    ELSE Done([c EXCEPT !.available = DecimalAdd(@, unwrap_or_default(t.amount))])

\* Withdrawal arm, with the same replace on the local Option
main_withdrawal(c, t, chk) ==
    IF t.tx \in DOMAIN c.balance_changes
    THEN Done(c)
    ELSE IF ~DecimalLess(c.available, unwrap_or_default(t.amount))
    THEN Done([c EXCEPT !.available = DecimalSub(@, unwrap_or_default(t.amount))])
    ELSE Done(c)

\* Dispute arm: status, then available -=, then held +=
main_dispute(c, t, chk) ==
    IF t.tx \notin DOMAIN c.balance_changes
    THEN Done(c)
    ELSE IF c.balance_changes[t.tx].status # "Valid"
    THEN Done(c)
    ELSE LET amount == c.balance_changes[t.tx].amount
             c1 == [c EXCEPT !.balance_changes[t.tx].status = "ActiveDispute"]
             c2 == [c1 EXCEPT !.available = DecimalSub(@, amount)]
         IN  IF chk /\ SubOverflows(c1.available, amount) THEN Panic(c1)
             ELSE IF chk /\ AddOverflows(c2.held, amount) THEN Panic(c2)
             ELSE Done([c2 EXCEPT !.held = DecimalAdd(@, amount)])

\* Resolve arm: status, then available +=, then held -=
main_resolve(c, t, chk) ==
    IF t.tx \notin DOMAIN c.balance_changes
    THEN Done(c)
    ELSE IF c.balance_changes[t.tx].status # "ActiveDispute"
    THEN Done(c)
    ELSE LET amount == c.balance_changes[t.tx].amount
             c1 == [c EXCEPT !.balance_changes[t.tx].status = "Valid"]
             c2 == [c1 EXCEPT !.available = DecimalAdd(@, amount)]
         IN  IF chk /\ AddOverflows(c1.available, amount) THEN Panic(c1)
             ELSE IF chk /\ SubOverflows(c2.held, amount) THEN Panic(c2)
             ELSE Done([c2 EXCEPT !.held = DecimalSub(@, amount)])

\* Chargeback arm: is_frozen, then held -=, then status
main_chargeback(c, t, chk) ==
    IF t.tx \notin DOMAIN c.balance_changes
    THEN Done(c)
    ELSE IF c.balance_changes[t.tx].status # "ActiveDispute"
    THEN Done(c)
    ELSE LET amount == c.balance_changes[t.tx].amount
             c1 == [c EXCEPT !.is_frozen = TRUE]
         IN  IF chk /\ SubOverflows(c1.held, amount) THEN Panic(c1)
             ELSE Done([c1 EXCEPT !.held = DecimalSub(@, amount),
                                  !.balance_changes[t.tx].status = "ChargedBack"])

\* the match on transaction.ty in the loop body
MainArm(c, t, chk) ==
    CASE t.ty = "Deposit"    -> main_deposit(c, t, chk)
      [] t.ty = "Withdrawal" -> main_withdrawal(c, t, chk)
      [] t.ty = "Dispute"    -> main_dispute(c, t, chk)
      [] t.ty = "Resolve"    -> main_resolve(c, t, chk)
      [] t.ty = "Chargeback" -> main_chargeback(c, t, chk)

\* the local `balance_change` of an arm when the arm is left: what get_mut
\* found, or, in the Deposit and Withdrawal arms, the entry that replace(..)
\* put into that local Option (the Withdrawal arm labels its entry Deposit)
main_balance_change(c, t) ==
    IF t.tx \in DOMAIN c.balance_changes
    THEN Some(MainArm(c, t, FALSE).client.balance_changes[t.tx])
    ELSE CASE t.ty = "Deposit" ->
                  Some(BalanceChangeEntry("Deposit", unwrap_or_default(t.amount), "Valid"))
           [] t.ty = "Withdrawal" ->
                  IF ~DecimalLess(c.available, unwrap_or_default(t.amount))
                  THEN Some(BalanceChangeEntry("Deposit", unwrap_or_default(t.amount), "Valid"))
                  ELSE None
           [] OTHER -> None

\* clients.entry(client_id).or_insert_with(Default::default)
\* mutant of or_insert_default: insert(..) instead of entry(..).or_insert_with(..)
or_insert_default_overwrites(map, cid) == Insert(map, cid, MainClientDefault)

\* mutant of or_insert_default: a new client starts the whole list afresh
or_insert_default_clears(map, cid) ==
    IF cid \in DOMAIN map THEN map
    ELSE [k \in (DOMAIN map) \cup {cid} |-> MainClientDefault]

or_insert_default(map, cid) ==
    IF cid \in DOMAIN map THEN map ELSE Insert(map, cid, MainClientDefault)

\* one iteration of the loop of main on transaction t
MainStep(t) ==
    /\ ~panicked
    /\ processed < MaxStream
    /\ LET entered == or_insert_default(clients, t.client)
           out == MainArm(entered[t.client], t, overflow_checks)
       IN  /\ clients' = [entered EXCEPT ![t.client] = out.client]
           /\ panicked' = out.panic
    /\ main_transaction' = t
    /\ clients_before' = clients
    /\ processed' = processed + 1
    /\ balance_change' = main_balance_change(or_insert_default(clients, t.client)[t.client], t)
    /\ UNCHANGED <<overflow_checks, account_vars, stream_vars>>

MainDeposit == \E t \in MainTransactions : t.ty = "Deposit" /\ MainStep(t)

MainWithdrawal == \E t \in MainTransactions : t.ty = "Withdrawal" /\ MainStep(t)

MainDispute == \E t \in MainTransactions : t.ty = "Dispute" /\ MainStep(t)

MainResolve == \E t \in MainTransactions : t.ty = "Resolve" /\ MainStep(t)

MainChargeback == \E t \in MainTransactions : t.ty = "Chargeback" /\ MainStep(t)

MainInit == AccountInit /\ LedgerInit /\ StreamIdle /\ overflow_checks \in BOOLEAN

MainNext ==
    MainDeposit \/ MainWithdrawal \/ MainDispute \/ MainResolve \/ MainChargeback

MainSpec == MainInit /\ [][MainNext]_vars

\* ------------------------------------------- main.rs: the whole of main
\* longest input stream
StreamLen == 3
\* length of a chunk; main uses chunks(1000), the model a length that a
\* stream of StreamLen transactions can exceed
ChunkLen == 2

\* the transactions of a stream: every kind for every client, all under the
\* same tx id, Deposit and Withdrawal with the amount 0.0001, and a Deposit
\* of the largest amount a DecimalType holds
StreamTransactions ==
    {Transaction(ty, cid, 1, Some(DecimalType(0, 1))) :
        ty \in {"Deposit", "Withdrawal"}, cid \in ClientIds}
    \cup
    {Transaction("Deposit", cid, 1, Some(DecimalMax)) : cid \in ClientIds}
    \cup
    {Transaction(ty, cid, 1, None) :
        ty \in {"Dispute", "Resolve", "Chargeback"}, cid \in ClientIds}

\* the input streams: every Vec<Transaction> of at most StreamLen elements
Streams == UNION {[1..n -> StreamTransactions] : n \in 0..StreamLen}

\* chunks(..): the positions of the next chunk, in stream order
next_chunk ==
    LET last == IF cursor + ChunkLen < Len(transaction_list)
                THEN cursor + ChunkLen ELSE Len(transaction_list)
    IN  [i \in 1..(last - cursor) |-> cursor + i]

\* the sort key |x| x.client of the transaction at position p
key(p) == transaction_list[p].client

\* mutant of insert_by_key: p goes before the elements with an equal key
insert_by_key_before_equal(sorted, p) ==
    LET n == Cardinality({i \in 1..Len(sorted) : key(sorted[i]) < key(p)})
    IN  SubSeq(sorted, 1, n) \o <<p>> \o SubSeq(sorted, n + 1, Len(sorted))

\* one step of the stable sort: p goes behind every element whose key is not
\* greater than its own
insert_by_key(sorted, p) ==
    LET n == Cardinality({i \in 1..Len(sorted) : key(sorted[i]) <= key(p)})
    IN  SubSeq(sorted, 1, n) \o <<p>> \o SubSeq(sorted, n + 1, Len(sorted))

RECURSIVE sorted_by_key(_)
\* chunk.sorted_by_key(|x| x.client): a stable sort of the chunk
sorted_by_key(chunk) ==
    IF chunk = <<>> THEN <<>>
    ELSE insert_by_key(sorted_by_key(SubSeq(chunk, 1, Len(chunk) - 1)),
                       chunk[Len(chunk)])

\* `for chunk in ..chunks(..)`: take the next chunk and sort it
NextChunk ==
    /\ ~panicked
    /\ pending = <<>>
    /\ cursor < Len(transaction_list)
    /\ pending' = sorted_by_key(next_chunk)
    /\ cursor' = cursor + Len(next_chunk)
    /\ UNCHANGED <<transaction_list, applied, ledger_vars, account_vars>>

\* one iteration of `for transaction in transactions` on the head of the
\* sorted chunk.  group_by hands over the runs of equal client id; the entry
\* taken at the start of a run is the account or_insert_default gives here
\* for each of its transactions.
StreamStep(t) ==
    /\ ~panicked
    /\ pending # <<>>
    /\ transaction_list[Head(pending)] = t
    /\ LET entered == or_insert_default(clients, t.client)
           out == MainArm(entered[t.client], t, overflow_checks)
       IN  /\ clients' = [entered EXCEPT ![t.client] = out.client]
           /\ panicked' = out.panic
    /\ main_transaction' = t
    /\ clients_before' = clients
    /\ processed' = processed + 1
    /\ balance_change' = main_balance_change(or_insert_default(clients, t.client)[t.client], t)
    /\ applied' = Append(applied, Head(pending))
    /\ pending' = Tail(pending)
    /\ UNCHANGED <<transaction_list, cursor, overflow_checks, account_vars>>

StreamDeposit == \E t \in StreamTransactions : t.ty = "Deposit" /\ StreamStep(t)

StreamWithdrawal == \E t \in StreamTransactions : t.ty = "Withdrawal" /\ StreamStep(t)

StreamDispute == \E t \in StreamTransactions : t.ty = "Dispute" /\ StreamStep(t)

StreamResolve == \E t \in StreamTransactions : t.ty = "Resolve" /\ StreamStep(t)

StreamChargeback == \E t \in StreamTransactions : t.ty = "Chargeback" /\ StreamStep(t)

\* main before its loop: any input stream, no client, nothing taken
StreamInit ==
    /\ AccountInit
    /\ LedgerInit
    /\ overflow_checks \in BOOLEAN
    /\ transaction_list \in Streams
    /\ cursor = 0
    /\ pending = <<>>
    /\ applied = <<>>

StreamNext ==
    \/ NextChunk
    \/ StreamDeposit
    \/ StreamWithdrawal
    \/ StreamDispute
    \/ StreamResolve
    \/ StreamChargeback

StreamSpec == StreamInit /\ [][StreamNext]_vars

\* the loop of main has run to its end
Finished == cursor = Len(transaction_list) /\ pending = <<>>

\* ===================================================== checked properties
\* helpers of the formulas: the entry map of the account before / after the
\* last call, and the entry the last transaction names
EntriesBefore == before.balance_changes

EntriesAfter == client.balance_changes

Known == transaction.tx \in DOMAIN EntriesBefore

\* every entry except the one under `tx` is the same before and after
OthersUnchanged(tx) ==
    /\ DOMAIN EntriesAfter \ {tx} = DOMAIN EntriesBefore \ {tx}
    /\ \A k \in DOMAIN EntriesBefore \ {tx} : EntriesAfter[k] = EntriesBefore[k]

\* C1: a handler that returns a failure leaves available, held, is_frozen and
\* the whole entry map exactly as they were before the call.
C1_NoPartialMutation ==
    result # "Ok" =>
        /\ client.available = before.available
        /\ client.held = before.held
        /\ client.is_frozen = before.is_frozen
        /\ client.balance_changes = before.balance_changes

\* a rejected withdrawal on an account that holds disputed funds
C1_Witness ==
    /\ result = "NoSufficientFunds"
    /\ before.held # 0
    /\ DOMAIN EntriesBefore # {}

\* C2: in every reachable state total() is available + held, and a rejected
\* transaction leaves total() at its value before the call.
C2_TotalIsAvailablePlusHeld ==
    /\ total(client) = client.available + client.held
    /\ result # "Ok" => total(client) = before.available + before.held

\* both parts of the sum are non-zero
C2_Witness == client.available # 0 /\ client.held # 0

\* C3: a Deposit or Withdrawal whose tx id is already a key of the entry map
\* fails with ReusedTransactionId and leaves the account unchanged, whatever
\* the existing entry and whatever the amount.
C3_ReusedTransactionId ==
    (transaction.ty \in {"Deposit", "Withdrawal"} /\ Known) =>
        result = "ReusedTransactionId" /\ client = before

\* a Withdrawal without amount that reuses the id of a charged-back Deposit
C3_Witness ==
    /\ transaction.ty = "Withdrawal"
    /\ transaction.amount = None
    /\ Known
    /\ EntriesBefore[transaction.tx].ty = "Deposit"
    /\ EntriesBefore[transaction.tx].status = "ChargedBack"
    /\ result = "ReusedTransactionId"

\* C4: a Withdrawal with a fresh tx id and a present amount succeeds exactly
\* when available >= amount; with amount > available it fails with
\* NoSufficientFunds and changes nothing; after a successful one available is
\* not below zero.
C4_WithdrawalFunds ==
    (transaction.ty = "Withdrawal" /\ ~Known /\ transaction.amount # None) =>
        /\ result = "Ok" <=> before.available >= unwrap(transaction.amount)
        /\ unwrap(transaction.amount) > before.available =>
              result = "NoSufficientFunds" /\ client = before
        /\ result = "Ok" => client.available >= 0

\* a withdrawal of everything that is available
C4_Witness ==
    /\ transaction.ty = "Withdrawal"
    /\ result = "Ok"
    /\ before.available > 0
    /\ unwrap(transaction.amount) = before.available
    /\ client.available = 0

\* C5 (account handlers): a successful Deposit / Withdrawal inserts exactly one
\* new entry under its tx id with its own kind, the exact amount and status
\* Valid, moves available by +amount / -amount and leaves held, is_frozen and
\* every other entry unchanged.
C5_AccountInsertsEntry ==
    (transaction.ty \in {"Deposit", "Withdrawal"} /\ result = "Ok") =>
        /\ ~Known
        /\ transaction.amount # None
        /\ DOMAIN EntriesAfter = DOMAIN EntriesBefore \cup {transaction.tx}
        /\ EntriesAfter[transaction.tx] =
              BalanceChangeEntry(transaction.ty, unwrap(transaction.amount), "Valid")
        /\ client.available =
              IF transaction.ty = "Deposit"
              THEN before.available + unwrap(transaction.amount)
              ELSE before.available - unwrap(transaction.amount)
        /\ client.held = before.held
        /\ client.is_frozen = before.is_frozen
        /\ OthersUnchanged(transaction.tx)

\* a withdrawal accepted on an account that already has an entry
C5_AccountWitness ==
    /\ transaction.ty = "Withdrawal"
    /\ result = "Ok"
    /\ unwrap(transaction.amount) # 0
    /\ DOMAIN EntriesBefore # {}

\* the client the last iteration of main worked on, before and after it
MainClientBefore ==
    or_insert_default(clients_before, main_transaction.client)[main_transaction.client]

MainClientAfter == clients[main_transaction.client]

\* the loop of main accepts the last transaction: a Deposit / Withdrawal with a
\* fresh tx id, an amount and (Withdrawal) enough funds, handled without panic
MainAccepted ==
    /\ main_transaction.ty \in {"Deposit", "Withdrawal"}
    /\ ~panicked
    /\ main_transaction.tx \notin DOMAIN MainClientBefore.balance_changes
    /\ main_transaction.amount # None
    /\ main_transaction.ty = "Withdrawal" =>
          ~DecimalLess(MainClientBefore.available, unwrap(main_transaction.amount))

\* C5 (dispatcher loop): a Deposit / Withdrawal the loop of main accepts
\* inserts one entry under its tx id with its own kind, the exact amount and
\* status Valid, and leaves held, is_frozen and every other entry unchanged.
C5_MainInsertsEntry ==
    MainAccepted =>
        /\ DOMAIN MainClientAfter.balance_changes =
              DOMAIN MainClientBefore.balance_changes \cup {main_transaction.tx}
        /\ MainClientAfter.balance_changes[main_transaction.tx] =
              BalanceChangeEntry(main_transaction.ty,
                                 unwrap(main_transaction.amount), "Valid")
        /\ MainClientAfter.held = MainClientBefore.held
        /\ MainClientAfter.is_frozen = MainClientBefore.is_frozen

\* C6: a successful Dispute hits an entry in status Valid, sets it to
\* ActiveDispute, moves exactly the entry's amount from available to held (so
\* total() is unchanged) and leaves is_frozen, the entry's kind and amount and
\* all other entries unchanged; a Dispute on a Valid entry is successful.
C6_DisputeEffect ==
    /\ (transaction.ty = "Dispute" /\ result = "Ok") =>
          /\ Known
          /\ EntriesBefore[transaction.tx].status = "Valid"
          /\ EntriesAfter[transaction.tx] =
                [EntriesBefore[transaction.tx] EXCEPT !.status = "ActiveDispute"]
          /\ client.available = before.available - EntriesBefore[transaction.tx].amount
          /\ client.held = before.held + EntriesBefore[transaction.tx].amount
          /\ total(client) = total(before)
          /\ client.is_frozen = before.is_frozen
          /\ DOMAIN EntriesAfter = DOMAIN EntriesBefore
          /\ OthersUnchanged(transaction.tx)
    /\ (transaction.ty = "Dispute" /\ Known
            /\ EntriesBefore[transaction.tx].status = "Valid") => result = "Ok"

\* a dispute of a non-zero entry on an account with two entries
C6_Witness ==
    /\ transaction.ty = "Dispute"
    /\ result = "Ok"
    /\ EntriesBefore[transaction.tx].amount # 0
    /\ Cardinality(DOMAIN EntriesBefore) = 2

\* C7: Resolve exactly reverses Dispute: right after a successful Dispute(tx),
\* Resolve(tx) succeeds and gives back the account as it was before the
\* dispute (available, held, is_frozen and the whole entry map).
C7_ResolveReversesDispute ==
    (transaction.ty = "Dispute" /\ result = "Ok") =>
        LET resolved ==
                Handle(client, Transaction("Resolve", transaction.client,
                                           transaction.tx, None))
        IN  /\ resolved.result = "Ok"
            /\ resolved.client = before

\* a dispute of a non-zero entry was just accepted on an account that an
\* earlier chargeback has frozen
C7_Witness ==
    /\ transaction.ty = "Dispute"
    /\ result = "Ok"
    /\ EntriesBefore[transaction.tx].amount # 0
    /\ before.is_frozen

\* C8: a successful Chargeback hits an entry in status ActiveDispute, sets it
\* to ChargedBack, takes exactly the entry's amount out of held, leaves
\* available unchanged (total() drops by the amount) and sets is_frozen; all
\* other entries are unchanged; a Chargeback on an ActiveDispute entry is
\* successful.
C8_ChargebackEffect ==
    /\ (transaction.ty = "Chargeback" /\ result = "Ok") =>
          /\ Known
          /\ EntriesBefore[transaction.tx].status = "ActiveDispute"
          /\ EntriesAfter[transaction.tx] =
                [EntriesBefore[transaction.tx] EXCEPT !.status = "ChargedBack"]
          /\ client.held = before.held - EntriesBefore[transaction.tx].amount
          /\ client.available = before.available
          /\ total(client) = total(before) - EntriesBefore[transaction.tx].amount
          /\ client.is_frozen
          /\ OthersUnchanged(transaction.tx)
    /\ (transaction.ty = "Chargeback" /\ Known
            /\ EntriesBefore[transaction.tx].status = "ActiveDispute") => result = "Ok"

\* a chargeback of a non-zero entry on an account that was not frozen and has
\* a second entry
C8_Witness ==
    /\ transaction.ty = "Chargeback"
    /\ result = "Ok"
    /\ EntriesBefore[transaction.tx].amount # 0
    /\ ~before.is_frozen
    /\ Cardinality(DOMAIN EntriesBefore) = 2

\* C9: a Dispute, Resolve or Chargeback whose tx id is not a key of the entry
\* map fails with UnknownTransactionId, creates no entry and leaves the
\* account unchanged.
C9_UnknownTransactionId ==
    (transaction.ty \in {"Dispute", "Resolve", "Chargeback"} /\ ~Known) =>
        /\ result = "UnknownTransactionId"
        /\ transaction.tx \notin DOMAIN EntriesAfter
        /\ client = before

\* a Chargeback for an unknown id on an account that has another entry
C9_Witness ==
    /\ transaction.ty = "Chargeback"
    /\ ~Known
    /\ DOMAIN EntriesBefore # {}
    /\ result = "UnknownTransactionId"

\* C10: an entry starts in status Valid; a call changes an entry's status only
\* by Valid -> ActiveDispute (Dispute of it), ActiveDispute -> Valid (Resolve
\* of it) or ActiveDispute -> ChargedBack (Chargeback of it); a ChargedBack
\* entry stays ChargedBack.
C10_DisputeLifecycle ==
    \A k \in DOMAIN EntriesAfter :
        IF k \notin DOMAIN EntriesBefore
        THEN EntriesAfter[k].status = "Valid"
        ELSE LET old == EntriesBefore[k].status
                 new == EntriesAfter[k].status
             IN  /\ \/ new = old
                    \/ /\ old = "Valid" /\ new = "ActiveDispute"
                       /\ transaction.ty = "Dispute" /\ transaction.tx = k
                    \/ /\ old = "ActiveDispute" /\ new = "Valid"
                       /\ transaction.ty = "Resolve" /\ transaction.tx = k
                    \/ /\ old = "ActiveDispute" /\ new = "ChargedBack"
                       /\ transaction.ty = "Chargeback" /\ transaction.tx = k
                 /\ old = "ChargedBack" => new = "ChargedBack"

\* a Dispute was sent for an entry that is ChargedBack
C10_Witness ==
    /\ transaction.ty = "Dispute"
    /\ Known
    /\ EntriesBefore[transaction.tx].status = "ChargedBack"

\* C11: a call on an existing entry in the wrong status fails with the
\* specified kind and changes nothing: Dispute on ActiveDispute or ChargedBack
\* gives DoubleDispute; Resolve or Chargeback on Valid or ChargedBack gives
\* DisputeNotActive.
C11_WrongStatusRejected ==
    /\ (transaction.ty = "Dispute" /\ Known
            /\ EntriesBefore[transaction.tx].status \in {"ActiveDispute", "ChargedBack"})
          => (result = "DoubleDispute" /\ client = before)
    /\ (transaction.ty \in {"Resolve", "Chargeback"} /\ Known
            /\ EntriesBefore[transaction.tx].status \in {"Valid", "ChargedBack"})
          => (result = "DisputeNotActive" /\ client = before)

\* a Chargeback on an entry that is already ChargedBack, with another dispute
\* still open
C11_Witness ==
    /\ transaction.ty = "Chargeback"
    /\ Known
    /\ EntriesBefore[transaction.tx].status = "ChargedBack"
    /\ before.held # 0
    /\ result = "DisputeNotActive"

\* C12: is_frozen is false in a new account, and no call ever clears it: if
\* it was true before a call it is true after it, whatever the transaction.
C12_FrozenMonotonic ==
    /\ ~ClientDefault.is_frozen
    /\ transaction = NoTransaction => ~client.is_frozen
    /\ before.is_frozen => client.is_frozen

\* a Resolve accepted on an account that an earlier Chargeback has frozen
C12_Witness ==
    /\ before.is_frozen
    /\ transaction.ty = "Resolve"
    /\ result = "Ok"
    /\ client.is_frozen

\* the account with its frozen flag flipped and everything else the same
FlippedFrozen(c) == [c EXCEPT !.is_frozen = ~@]

\* C13: freezing does not gate processing: on two accounts that differ only in
\* is_frozen every transaction has the same outcome (success or the same
\* failure kind) and the same resulting available, held and entry map; a
\* Deposit or Withdrawal that would be accepted is accepted on a frozen
\* account too.
C13_FrozenDoesNotGate ==
    /\ \A t \in Transactions :
          LET here == Handle(client, t)
              there == Handle(FlippedFrozen(client), t)
          IN  /\ here.result = there.result
              /\ here.client.available = there.client.available
              /\ here.client.held = there.client.held
              /\ here.client.balance_changes = there.client.balance_changes
    /\ (before.is_frozen /\ transaction.ty \in {"Deposit", "Withdrawal"}
            /\ ~Known /\ transaction.amount # None
            /\ (transaction.ty = "Withdrawal" =>
                    before.available >= unwrap(transaction.amount)))
          => (result = "Ok" /\ transaction.tx \in DOMAIN EntriesAfter)

\* a non-zero Deposit accepted after a Chargeback has frozen the account
C13_Witness ==
    /\ before.is_frozen
    /\ transaction.ty = "Deposit"
    /\ result = "Ok"
    /\ client.available = before.available + unwrap(transaction.amount)
    /\ unwrap(transaction.amount) # 0

\* the account with the kind of entry k swapped (Deposit <-> Withdrawal)
SwappedKind(c, k) ==
    [c EXCEPT !.balance_changes[k].ty = IF @ = "Deposit" THEN "Withdrawal" ELSE "Deposit"]

\* Scenario B of the specification, in whole units: Deposit 5 under tx 1,
\* Withdrawal 3 under tx 2, Dispute of tx 2
ScenarioB ==
    LET deposited == Handle(ClientDefault, Transaction("Deposit", 0, 1, Some(5))).client
        withdrawn == Handle(deposited, Transaction("Withdrawal", 0, 2, Some(3))).client
    IN  Handle(withdrawn, Transaction("Dispute", 0, 2, None))

\* C14: a Dispute treats Withdrawal entries like Deposit entries: its outcome
\* and its effect on available, held and the status depend on the entry's
\* amount and status only, not on its kind; a Dispute of a Valid Withdrawal is
\* accepted and takes the amount out of available, which can go negative
\* (Deposit 5, Withdrawal 3, Dispute of the withdrawal: available -1, held 3).
C14_DisputeIgnoresKind ==
    /\ \A k \in DOMAIN client.balance_changes :
          LET t == Transaction("Dispute", 0, k, None)
              here == process_dispute(client, t)
              there == process_dispute(SwappedKind(client, k), t)
          IN  /\ here.result = there.result
              /\ here.client.available = there.client.available
              /\ here.client.held = there.client.held
              /\ here.client.balance_changes[k].status =
                    there.client.balance_changes[k].status
    /\ (transaction.ty = "Dispute" /\ Known
            /\ EntriesBefore[transaction.tx].ty = "Withdrawal"
            /\ EntriesBefore[transaction.tx].status = "Valid")
          => /\ result = "Ok"
             /\ client.available = before.available - EntriesBefore[transaction.tx].amount
             /\ client.held = before.held + EntriesBefore[transaction.tx].amount
    /\ ScenarioB.result = "Ok"
    /\ ScenarioB.client.available = 0 - 1
    /\ ScenarioB.client.held = 3

\* the dispute of a withdrawal has just made available negative
C14_Witness ==
    /\ transaction.ty = "Dispute"
    /\ result = "Ok"
    /\ EntriesBefore[transaction.tx].ty = "Withdrawal"
    /\ before.available >= 0
    /\ client.available < 0
    /\ client.held > 0

\* C17: every entry stored in the account has a non-negative amount, whatever
\* amounts the input transactions carry.
C17_EntryAmountsNonNegative ==
    \A k \in DOMAIN client.balance_changes : client.balance_changes[k].amount >= 0

\* C18: the failure kind of a rejected transaction is retained in the account
\* state: it can be read off the account after the call, that is, any other
\* rejected call that would have ended in this same account state would have
\* failed with the same kind.
C18_FailureKindRetained ==
    result # "Ok" =>
        \A t \in Transactions :
            LET other == Handle(before, t)
            IN  (other.result # "Ok" /\ other.client = client)
                => other.result = result

\* C15: accounts are created lazily and never destroyed: nothing is known
\* before the first transaction; an iteration makes known exactly the id of
\* its transaction (whatever the kind, also when the transaction is dropped)
\* and forgets none; a new account is all zero and not frozen when its first
\* transaction is applied, and an account already known is not created anew.
C15_AccountsLazyAndKept ==
    /\ processed = 0 => DOMAIN clients = {}
    /\ MainClientDefault.available = DecimalZero
    /\ MainClientDefault.held = DecimalZero
    /\ ~MainClientDefault.is_frozen
    /\ DOMAIN MainClientDefault.balance_changes = {}
    /\ processed > 0 =>
          /\ DOMAIN clients = DOMAIN clients_before \cup {main_transaction.client}
          /\ main_transaction.client \notin DOMAIN clients_before =>
                MainClientAfter =
                    MainArm(MainClientDefault, main_transaction, overflow_checks).client
          /\ main_transaction.client \in DOMAIN clients_before =>
                MainClientAfter =
                    MainArm(clients_before[main_transaction.client],
                            main_transaction, overflow_checks).client

\* a second account has just been created by a Dispute that was dropped
C15_Witness ==
    /\ main_transaction.ty = "Dispute"
    /\ DOMAIN clients_before # {}
    /\ main_transaction.client \notin DOMAIN clients_before
    /\ main_transaction.client \in DOMAIN clients
    /\ MainClientAfter = MainClientDefault

\* C20: the chunking, the stable sort by client id and the grouping keep the
\* order per account: of two transactions of the same account main handles
\* the one that is earlier in the input stream first, in one chunk and across
\* chunks; what is still pending for an account is later in the stream than
\* what was handled for it.
C20_PerAccountOrder ==
    /\ \A i, j \in 1..Len(applied) :
          (i < j /\ key(applied[i]) = key(applied[j])) => applied[i] < applied[j]
    /\ \A i \in 1..Len(applied), j \in 1..Len(pending) :
          key(applied[i]) = key(pending[j]) => applied[i] < pending[j]
    /\ \A i, j \in 1..Len(pending) :
          (i < j /\ key(pending[i]) = key(pending[j])) => pending[i] < pending[j]

\* the sort moved the second transaction in front of the first, and the
\* account of the first has a later transaction in the next chunk
C20_Witness ==
    /\ Finished
    /\ applied = <<2, 1, 3>>
    /\ key(1) = key(3)
    /\ key(1) # key(2)

\* the Decimal that a DecimalType stands for (in 1/10000 units)
ToDecimal(d) == d[1] * Half + d[2]

\* a transaction of the stream as Client::process_transaction takes it
AsClientTransaction(t) ==
    [t EXCEPT !.amount = IF @ = None THEN None ELSE Some(ToDecimal(unwrap(@)))]

\* route(transaction): look the account up or create it, then let it process
\* the transaction and drop the result
route(ledger, t) ==
    LET entered == IF t.client \in DOMAIN ledger
                   THEN ledger ELSE Insert(ledger, t.client, ClientDefault)
    IN  [entered EXCEPT ![t.client] = Handle(@, AsClientTransaction(t)).client]

RECURSIVE fold_route(_)
\* the fold of route over a stream, left to right, from the empty ledger
fold_route(stream) ==
    IF stream = <<>> THEN <<>>
    ELSE route(fold_route(SubSeq(stream, 1, Len(stream) - 1)), stream[Len(stream)])

\* an account of main and an account of client.rs hold the same values
SameAccount(m, r) ==
    /\ ToDecimal(m.available) = r.available
    /\ ToDecimal(m.held) = r.held
    /\ m.is_frozen = r.is_frozen
    /\ DOMAIN m.balance_changes = DOMAIN r.balance_changes
    /\ \A k \in DOMAIN m.balance_changes :
          /\ m.balance_changes[k].ty = r.balance_changes[k].ty
          /\ ToDecimal(m.balance_changes[k].amount) = r.balance_changes[k].amount
          /\ m.balance_changes[k].status = r.balance_changes[k].status

\* the stream holds only amounts that ToDecimal can give as an integer below
\* 2^31, the range the fold is computed in
FoldAmounts ==
    \A i \in 1..Len(transaction_list) : transaction_list[i].amount # Some(DecimalMax)

\* C19: when the loop of main has consumed a stream, every account has the
\* available, held, frozen flag and entry map that folding
\* Client::process_transaction over the same stream, routed by client id,
\* gives it.
C19_LoopEqualsFold ==
    (Finished /\ ~panicked /\ FoldAmounts) =>
        /\ DOMAIN clients = DOMAIN fold_route(transaction_list)
        /\ \A c \in DOMAIN clients :
              SameAccount(clients[c], fold_route(transaction_list)[c])

\* the accounts other than the one the last transaction names
OtherClients(map) == DOMAIN map \ {main_transaction.client}

C21_NoTransactionIsFatal ==
    /\ Finished \/ ENABLED StreamNext
    /\ Len(applied) = processed
    /\ \A i, j \in 1..Len(applied) : applied[i] = applied[j] => i = j
    /\ Finished => {applied[i] : i \in 1..Len(applied)} = 1..Len(transaction_list)

\* C21 (what holds): positions are handled at most once, and a run that is
\* not aborted by a panic can go on until all of them were handled
C21_HandledOnceUnlessAborted ==
    /\ panicked \/ Finished \/ ENABLED StreamNext
    /\ Len(applied) = processed
    /\ \A i, j \in 1..Len(applied) : applied[i] = applied[j] => i = j
    /\ Finished => {applied[i] : i \in 1..Len(applied)} = 1..Len(transaction_list)

\* a dropped transaction was followed by another one, and the run finished
C21_ContinuesAfterDrop ==
    /\ Finished
    /\ ~panicked
    /\ Len(applied) = StreamLen
    /\ transaction_list[applied[1]].ty = "Dispute"
    /\ clients # clients_before

\* C22: Deposit and Withdrawal check the tx id first, then the presence of the
\* amount, then (Withdrawal only) the funds, and report the first check that
\* fails: a reused id without amount gives ReusedTransactionId, a fresh
\* Withdrawal without amount gives AmountNotSpecified whatever is available.
C22_ValidationOrder ==
    transaction.ty \in {"Deposit", "Withdrawal"} =>
        /\ result =
              IF Known THEN "ReusedTransactionId"
              ELSE IF transaction.amount = None THEN "AmountNotSpecified"
              ELSE IF transaction.ty = "Withdrawal"
                      /\ before.available < unwrap(transaction.amount)
                   THEN "NoSufficientFunds"
              ELSE "Ok"
        /\ (Known /\ transaction.amount = None) => result = "ReusedTransactionId"
        /\ (transaction.ty = "Withdrawal" /\ ~Known /\ transaction.amount = None) =>
              result = "AmountNotSpecified"

\* a Deposit that fails two checks at once: its id is in use and it has no amount
C22_Witness ==
    /\ transaction.ty = "Deposit"
    /\ Known
    /\ transaction.amount = None
    /\ result = "ReusedTransactionId"

\* a fresh Withdrawal without amount on an account with nothing to withdraw
C22_WitnessNoFunds ==
    /\ transaction.ty = "Withdrawal"
    /\ ~Known
    /\ transaction.amount = None
    /\ before.available < 0
    /\ result = "AmountNotSpecified"

\* C23 (account handlers): a Deposit / Withdrawal with a fresh tx id and no
\* amount fails with AmountNotSpecified, leaves the account as it was and
\* leaves its tx id without entry.
C23_AccountAbsentAmount ==
    (transaction.ty \in {"Deposit", "Withdrawal"} /\ ~Known /\ transaction.amount = None) =>
        /\ result = "AmountNotSpecified"
        /\ client = before
        /\ transaction.tx \notin DOMAIN EntriesAfter

\* the id of a Deposit that came without amount is used by a later Deposit
C23_AccountWitness ==
    /\ transaction.ty = "Deposit"
    /\ result = "Ok"
    /\ \E t \in Transactions :
          /\ t.ty = "Deposit" /\ t.tx = transaction.tx /\ t.amount = None
          /\ Handle(before, t).result = "AmountNotSpecified"

\* the last transaction of the loop of main is a Deposit / Withdrawal with a
\* fresh tx id and no amount
MainAbsentAmount ==
    /\ main_transaction.ty \in {"Deposit", "Withdrawal"}
    /\ main_transaction.amount = None
    /\ main_transaction.tx \notin DOMAIN MainClientBefore.balance_changes

\* C23 (dispatcher loop): a Deposit / Withdrawal without amount is dropped by
\* the loop of main: its arm is left with no entry made for the tx id and no
\* balance changed, it is not carried out as a deposit / withdrawal of zero.
C23_MainAbsentAmount ==
    MainAbsentAmount =>
        /\ balance_change = None
        /\ main_transaction.tx \notin DOMAIN MainClientAfter.balance_changes
        /\ MainClientAfter = MainClientBefore

\* C24: the entry map is append-only and an entry's kind and amount never
\* change.  Over every call no key is lost, the only key that can be new is
\* the tx id of a successful Deposit / Withdrawal, and every entry that
\* existed keeps its kind and its amount (only its status may differ).
C24_EntriesAppendOnly ==
    /\ DOMAIN EntriesBefore \subseteq DOMAIN EntriesAfter
    /\ DOMAIN EntriesAfter # DOMAIN EntriesBefore =>
          /\ transaction.ty \in {"Deposit", "Withdrawal"}
          /\ result = "Ok"
          /\ DOMAIN EntriesAfter = DOMAIN EntriesBefore \cup {transaction.tx}
    /\ (transaction.ty \in {"Dispute", "Resolve", "Chargeback"} \/ result # "Ok") =>
          DOMAIN EntriesAfter = DOMAIN EntriesBefore
    /\ \A k \in DOMAIN EntriesBefore :
          /\ EntriesAfter[k].ty = EntriesBefore[k].ty
          /\ EntriesAfter[k].amount = EntriesBefore[k].amount

\* a Chargeback changed the status of one of two entries, a Withdrawal
C24_Witness ==
    /\ transaction.ty = "Chargeback"
    /\ result = "Ok"
    /\ Cardinality(DOMAIN EntriesBefore) = 2
    /\ EntriesBefore[transaction.tx].ty = "Withdrawal"
    /\ EntriesAfter[transaction.tx].status # EntriesBefore[transaction.tx].status

\* the tx ids of the entries of account c that are in status s
WithStatus(c, s) == {k \in DOMAIN c.balance_changes : c.balance_changes[k].status = s}

RECURSIVE SumOfAmounts(_, _)
\* sum of the amounts of the entries of c under the tx ids in keys
SumOfAmounts(c, keys) ==
    IF keys = {} THEN 0
    ELSE LET k == CHOOSE x \in keys : TRUE
         IN  c.balance_changes[k].amount + SumOfAmounts(c, keys \ {k})

\* C25: in every reachable account state held is the sum of the amounts of
\* the entries in status ActiveDispute: zero when no dispute is open, and not
\* negative when no entry amount is negative.
C25_HeldIsDisputedSum ==
    /\ client.held = SumOfAmounts(client, WithStatus(client, "ActiveDispute"))
    /\ WithStatus(client, "ActiveDispute") = {} => client.held = 0
    /\ (\A k \in DOMAIN client.balance_changes : client.balance_changes[k].amount >= 0) =>
          client.held >= 0

\* one entry is charged back while another one is still in dispute
C25_Witness ==
    /\ transaction.ty = "Chargeback"
    /\ result = "Ok"
    /\ EntriesBefore[transaction.tx].amount # 0
    /\ WithStatus(client, "ActiveDispute") # {}
    /\ client.held # 0

\* C26: in every reachable account state is_frozen is true exactly when some
\* entry of the account is in status ChargedBack.
C26_FrozenIffChargedBack ==
    client.is_frozen <=> WithStatus(client, "ChargedBack") # {}

\* a frozen account after a later Resolve of another entry
C26_Witness ==
    /\ transaction.ty = "Resolve"
    /\ result = "Ok"
    /\ client.is_frozen
    /\ WithStatus(client, "ChargedBack") # {}
    /\ WithStatus(client, "Valid") # {}
====
